---- MODULE Spec2Model ----
(***************************************************************************)
(* GammaRips MCP: the tiered query / fallback / redaction pipeline of      *)
(* tools/overnight_signals.py, the Firestore adapter of                    *)
(* data/firestore_client.py, and the lazily-initialised store handle.      *)
(*                                                                         *)
(* Python dicts are functions from field names to values, lists are        *)
(* sequences; dicts and lists that the program shares by reference live in *)
(* two heaps (dictHeap, listHeap) and are named by their index there.      *)
(* A handler is cut at its await points: one action up to the call of an   *)
(* adapter, one action for the adapter, one for the code after the await.  *)
(***************************************************************************)
EXTENDS Integers, Sequences, FiniteSets, TLC

(* ---------------- bounds of the model ---------------- *)
MaxScore == 9
MaxLimit == 50
MaxThreads == 3

(* ---------------- program constants ---------------- *)
FreeMinScore == 7
FreeLimit == 10
DefaultMinScore == 5
DefaultLimit == 20

None == 0

VARIABLES
    pc,            \* position of the request in flight ("idle" when none)
    args,          \* the caller's arguments, as passed (never changed)
    tier,          \* local `tier`
    min_score,     \* local `min_score` (rebound by the tier restriction)
    limit,         \* local `limit`     (rebound by the tier restriction)
    query_date,    \* local `query_date`
    signals,       \* local `signals` / `signal` / `themes`: a heap reference
    ret,           \* the value (or exception) an awaited adapter call produced
    response,      \* the mapping the handler returned
    calls,         \* log of adapter calls made by the request, in order
    dictHeap,      \* dict objects, by reference
    listHeap,      \* list objects, by reference
    adapterDicts,  \* dict objects as they were when the last adapter returned
    adapterLists,  \* list objects as they were when the last adapter returned
    fault,         \* the store fault met by the primary adapter, "none" if none
    _client_instance, \* FirestoreClient._client_instance (None or a handle)
    constructed,   \* number of runs of firestore.Client(...)
    tpc,           \* position of each thread inside FirestoreClient.__init__
    made,          \* the handle each thread got from firestore.Client(...)
    client         \* self.client of the instance each thread builds

request == <<pc, args, tier, min_score, limit, query_date, signals, ret,
             response, calls, fault>>
heaps == <<dictHeap, listHeap, adapterDicts, adapterLists>>
singleton == <<_client_instance, constructed, tpc, made, client>>
vars == <<request, heaps, singleton>>

(* ---------------- python helpers ---------------- *)
EmptyDict == <<>>

DictGet(d, k, default) == IF k \in DOMAIN d THEN d[k] ELSE default

Pop(d, fields) == [f \in DOMAIN d \ fields |-> d[f]]

Min(a, b) == IF a < b THEN a ELSE b

Max(a, b) == IF a > b THEN a ELSE b

Range(s) == {s[i] : i \in DOMAIN s}

Pad2(n) == IF n < 10 THEN "0" \o ToString(n) ELSE ToString(n)

\* datetime.strftime("%Y-%m-%d")
Strftime(dt) == ToString(dt.year) \o "-" \o Pad2(dt.month) \o "-" \o Pad2(dt.day)

(* ---------------- the stores (external systems of record) ---------------- *)
\* one paid field forgotten in the list of lines 72-76
PaidFieldsShort == {"recommended_contract", "recommended_strike",
                    "recommended_expiration", "recommended_mid_price",
                    "contract_score", "news", "catalyst_summary",
                    "flow_details"}

PaidFields == {"recommended_contract", "recommended_strike",
               "recommended_expiration", "recommended_mid_price",
               "contract_score", "technicals", "news", "catalyst_summary",
               "flow_details"}

FsSignalDocs ==
    << [scan_date |-> "2026-01-01", ticker |-> "AAPL", direction |-> "BEARISH",
        overnight_score |-> 6, technicals |-> "secret", news |-> "n-aapl",
        flow_details |-> "f-aapl"],
       [scan_date |-> "2026-01-01", ticker |-> "FSLY", direction |-> "BULLISH",
        overnight_score |-> 9, technicals |-> "secret",
        recommended_contract |-> "FSLY-C", recommended_strike |-> "12",
        recommended_expiration |-> "2026-02-20",
        recommended_mid_price |-> "1.10", contract_score |-> "8",
        news |-> "n-fsly", catalyst_summary |-> "c-fsly",
        flow_details |-> "f-fsly"],
       [scan_date |-> "2026-01-02", ticker |-> "NVDA", direction |-> "BULLISH",
        overnight_score |-> 8, price_change_pct |-> "2.5"] >>

BqSignalDocs ==
    << [scan_date |-> "2025-12-31", ticker |-> "TSLA", direction |-> "BEARISH",
        overnight_score |-> 7, news |-> "n-tsla"],
       [scan_date |-> "2026-01-01", ticker |-> "FSLY", direction |-> "BULLISH",
        overnight_score |-> 9, technicals |-> "secret",
        recommended_contract |-> "FSLY-C"] >>

BqLatestDate == "2026-01-01"

FsThemeDocs ==
    << [scan_date |-> "2026-01-01",
        themes |-> << [name |-> "AI", tickers |-> <<"NVDA", "AMD">>,
                       summary |-> "chips"],
                      [name |-> "Energy", summary |-> "oil"] >>],
       [scan_date |-> "2026-01-02", note |-> "no themes yet"] >>

BqThemes == << [name |-> "Rates", tickers |-> <<"TLT">>] >>

(* ---------------- inputs ---------------- *)
Directions == {"ALL", "BULLISH", "BEARISH"}
MinScores == {0, DefaultMinScore, FreeMinScore, MaxScore}
Limits == {1, FreeLimit, DefaultLimit, MaxLimit}
Dates == {"latest", "2026-01-01"}
Clock == {[year |-> 2026, month |-> 1, day |-> d] : d \in {1, 2}}
Tickers == {"FSLY", "ZZZZ"}

\* the keyword arguments beside the named ones: the injected _user_info
KwargsOf(i) ==
    CASE i = 1 -> EmptyDict
      [] i = 2 -> ("_user_info" :> EmptyDict)
      [] i = 3 -> ("_user_info" :> ("tier" :> "FREE"))
      [] i = 4 -> ("_user_info" :> ("tier" :> "EDGE"))
      [] OTHER -> ("_user_info" :> ("tier" :> "WAR_ROOM"))
KwargsIds == 1..5

(* ---------------- tools/overnight_signals.py ---------------- *)
\* the default of a missing tier is a paid tier
_get_user_tier_paid(kwargs) ==
    LET user_info == DictGet(kwargs, "_user_info", EmptyDict)
    IN  DictGet(user_info, "tier", "EDGE")

_get_user_tier(kwargs) ==
    LET user_info == DictGet(kwargs, "_user_info", EmptyDict)
    IN  DictGet(user_info, "tier", "FREE")

\* min in place of max: a stricter caller value is loosened to the floor
TierMinScoreLoosened(t, ms) == IF t = "FREE" THEN Min(ms, FreeMinScore) ELSE ms

TierMinScore(t, ms) == IF t = "FREE" THEN Max(ms, FreeMinScore) ELSE ms

TierLimit(t, lim) == IF t = "FREE" THEN Min(lim, FreeLimit) ELSE lim

ResolveDate(d, dt) == IF d = "latest" THEN Strftime(dt) ELSE d

\* `not signals` / `not themes` for a list reference
Truthy(lh, ref) == ref # None /\ lh[ref] # <<>>

\* the fields are popped from the adapter's record itself before the copy
FilteredHeapInPlace(dh, refs, fields) ==
    [r \in 1..Len(dh) |-> IF r \in Range(refs) THEN Pop(dh[r], fields) ELSE dh[r]]
        \o [i \in 1..Len(refs) |-> Pop(dh[refs[i]], fields)]

\* sig.copy() followed by s.pop(field, None) for every field, for each record
\* of the list: the copies are new objects appended to the heap
FilteredHeap(dh, refs, fields) ==
    dh \o [i \in 1..Len(refs) |-> Pop(dh[refs[i]], fields)]

\* the references held by filtered_signals / filtered_themes
FilteredRefs(dh, refs) == [i \in 1..Len(refs) |-> Len(dh) + i]

Upgrade(n) ==
    [message |-> "You're seeing " \o ToString(n) \o " signals (score 7+ only). Unlock all signals, contracts, technicals & AI analysis.",
     plans |-> << [name |-> "The Overnight Edge", price |-> "$49/mo",
                   url |-> "https://gammarips.com/#pricing"],
                  [name |-> "The War Room", price |-> "$149/mo",
                   url |-> "https://gammarips.com/#pricing"] >>]

\* the keyword arguments of fs_client.get_overnight_signals(...)
FsSignalsCall(qd, dir, ms, lim) ==
    [adapter |-> "fs", op |-> "get_overnight_signals", date |-> qd,
     direction |-> dir, min_score |-> ms, limit |-> lim]

\* the fallback is handed the resolved query date
BqSignalsCallResolved(d, qd, dir, ms, lim) ==
    [adapter |-> "bq", op |-> "get_overnight_signals", date |-> qd,
     direction |-> dir, min_score |-> ms, limit |-> lim]

\* the keyword arguments of bq_client.get_overnight_signals(...)
BqSignalsCall(d, qd, dir, ms, lim) ==
    [adapter |-> "bq", op |-> "get_overnight_signals", date |-> d,
     direction |-> dir, min_score |-> ms, limit |-> lim]

\* get_overnight_signals, lines 33-51: tier restriction, date resolution and
\* the call of the primary adapter
GetOvernightSignals(direction, a_min_score, a_limit, date, kwargs, dt) ==
    /\ pc = "idle"
    /\ args' = [op |-> "get_overnight_signals", direction |-> direction,
                min_score |-> a_min_score, limit |-> a_limit, date |-> date,
                ticker |-> "", kwargs |-> kwargs, now |-> Strftime(dt)]
    /\ tier' = _get_user_tier(kwargs)
    /\ min_score' = TierMinScore(tier', a_min_score)
    /\ limit' = TierLimit(tier', a_limit)
    /\ query_date' = ResolveDate(date, dt)
    /\ calls' = Append(calls, FsSignalsCall(query_date', direction, min_score', limit'))
    /\ pc' = "fs_get_overnight_signals"
    /\ UNCHANGED <<signals, ret, response, fault, heaps, singleton>>

\* lines 65-97: redaction for the FREE tier, the response, the upgrade block
SignalsRespond(sigs, qd, dh, lh) ==
    LET free  == tier = "FREE"
        dh2   == IF free THEN FilteredHeap(dh, lh[sigs], PaidFields) ELSE dh
        lh2   == IF free THEN Append(lh, FilteredRefs(dh, lh[sigs])) ELSE lh
        out   == IF free THEN Len(lh2) ELSE sigs
        n     == Len(lh2[out])
        base  == [scan_date |-> qd, total_signals |-> n, signals |-> out]
    IN  /\ dictHeap' = dh2
        /\ listHeap' = lh2
        /\ signals' = out
        /\ query_date' = qd
        /\ response' = IF free THEN base @@ ("upgrade" :> Upgrade(n)) ELSE base
        /\ pc' = "done"

\* lines 46-61 after the await of the primary adapter: respond, or call the
\* fallback adapter when the primary result is empty
SignalsAfterPrimary ==
    /\ pc = "signals_after_fs"
    /\ IF ret.kind = "exc"
       THEN /\ pc' = "raised"
            /\ UNCHANGED <<signals, query_date, response, calls, dictHeap, listHeap>>
       ELSE IF ~Truthy(listHeap, ret.val)
       THEN /\ signals' = ret.val
            /\ calls' = Append(calls, BqSignalsCall(args.date, query_date,
                                   args.direction, min_score, limit))
            /\ pc' = "bq_get_overnight_signals"
            /\ UNCHANGED <<query_date, response, dictHeap, listHeap>>
       ELSE /\ SignalsRespond(ret.val, query_date, dictHeap, listHeap)
            /\ UNCHANGED calls
    /\ UNCHANGED <<args, tier, min_score, limit, ret, fault, adapterDicts,
                   adapterLists, singleton>>

\* lines 62-97 after the await of the fallback adapter; an exception of the
\* awaited call propagates, no handler encloses it
SignalsAfterFallback ==
    /\ pc = "signals_after_bq"
    /\ IF ret.kind = "exc"
       THEN /\ pc' = "raised"
            /\ UNCHANGED <<signals, query_date, response, dictHeap, listHeap>>
       ELSE LET bq_res == ret.val
                fresh  == "signals" \notin DOMAIN bq_res
                lh     == IF fresh THEN Append(listHeap, <<>>) ELSE listHeap
                sigs   == IF fresh THEN Len(lh) ELSE bq_res["signals"]
            IN  SignalsRespond(sigs, DictGet(bq_res, "scan_date", query_date),
                               dictHeap, lh)
    /\ UNCHANGED <<args, tier, min_score, limit, ret, calls, fault,
                   adapterDicts, adapterLists, singleton>>

\* no access gate
DetailDeniedNever(t) == FALSE

DetailDenied(t) == t = "FREE"

UpgradeRequired ==
    [error |-> "upgrade_required",
     message |-> "Signal deep dives require The Overnight Edge ($49/mo)",
     url |-> "https://gammarips.com/#pricing"]

\* `not signal` for an Optional[dict] reference
TruthyDict(dh, ref) == ref # None /\ dh[ref] # EmptyDict

\* get_signal_detail, lines 103-117: the access gate, then the primary call
GetSignalDetail(ticker, date, kwargs, dt) ==
    /\ pc = "idle"
    /\ args' = [op |-> "get_signal_detail", direction |-> "", min_score |-> 0,
                limit |-> 0, date |-> date, ticker |-> ticker,
                kwargs |-> kwargs, now |-> Strftime(dt)]
    /\ tier' = _get_user_tier(kwargs)
    /\ IF DetailDenied(tier')
       THEN /\ response' = UpgradeRequired
            /\ pc' = "done"
            /\ UNCHANGED <<query_date, calls>>
       ELSE /\ query_date' = ResolveDate(date, dt)
            /\ calls' = Append(calls, [adapter |-> "fs", op |-> "get_signal_detail",
                                       ticker |-> ticker, date |-> query_date'])
            /\ pc' = "fs_get_signal_detail"
            /\ UNCHANGED response
    /\ UNCHANGED <<min_score, limit, signals, ret, fault, heaps, singleton>>

\* lines 117-126 after the await of the primary adapter
DetailAfterPrimary ==
    /\ pc = "detail_after_fs"
    /\ IF ret.kind = "exc"
       THEN /\ pc' = "raised"
            /\ UNCHANGED <<signals, response, calls>>
       ELSE IF ~TruthyDict(dictHeap, ret.val)
       THEN /\ signals' = ret.val
            /\ calls' = Append(calls, [adapter |-> "bq", op |-> "get_signal_detail",
                                       ticker |-> args.ticker, date |-> args.date])
            /\ pc' = "bq_get_signal_detail"
            /\ UNCHANGED response
       ELSE /\ signals' = ret.val
            /\ response' = dictHeap[ret.val]
            /\ pc' = "done"
            /\ UNCHANGED calls
    /\ UNCHANGED <<args, tier, min_score, limit, query_date, ret, fault, heaps,
                   singleton>>

\* lines 121-126 after the await of the fallback adapter
DetailAfterFallback ==
    /\ pc = "detail_after_bq"
    /\ IF ret.kind = "exc"
       THEN /\ pc' = "raised"
            /\ UNCHANGED <<signals, response>>
       ELSE /\ signals' = ret.val
            /\ response' = IF ~TruthyDict(dictHeap, ret.val)
                           THEN [error |-> "Signal not found", ticker |-> args.ticker]
                           ELSE dictHeap[ret.val]
            /\ pc' = "done"
    /\ UNCHANGED <<args, tier, min_score, limit, query_date, ret, calls, fault,
                   heaps, singleton>>

\* get_market_themes, lines 142-149
GetMarketThemes(date, kwargs, dt) ==
    /\ pc = "idle"
    /\ args' = [op |-> "get_market_themes", direction |-> "", min_score |-> 0,
                limit |-> 0, date |-> date, ticker |-> "", kwargs |-> kwargs,
                now |-> Strftime(dt)]
    /\ tier' = _get_user_tier(kwargs)
    /\ query_date' = ResolveDate(date, dt)
    /\ calls' = Append(calls, [adapter |-> "fs", op |-> "get_market_themes",
                               date |-> query_date'])
    /\ pc' = "fs_get_market_themes"
    /\ UNCHANGED <<min_score, limit, signals, ret, response, fault, heaps,
                   singleton>>

\* a misspelt attribute name: nothing is removed
ThemeFieldsMisspelt == {"ticker"}

\* line 163: the attribute removed from each theme
ThemeFields == {"tickers"}

\* lines 157-170: the ticker lists are removed for the FREE tier
ThemesRespond(themes, qd, dh, lh) ==
    LET free == tier = "FREE"
        dh2  == IF free THEN FilteredHeap(dh, lh[themes], ThemeFields) ELSE dh
        lh2  == IF free THEN Append(lh, FilteredRefs(dh, lh[themes])) ELSE lh
        out  == IF free THEN Len(lh2) ELSE themes
    IN  /\ dictHeap' = dh2
        /\ listHeap' = lh2
        /\ signals' = out
        /\ query_date' = qd
        /\ response' = [scan_date |-> qd, themes |-> out]
        /\ pc' = "done"

\* lines 149-170 after the await of the primary adapter
ThemesAfterPrimary ==
    /\ pc = "themes_after_fs"
    /\ IF ret.kind = "exc"
       THEN /\ pc' = "raised"
            /\ UNCHANGED <<signals, query_date, response, calls, dictHeap, listHeap>>
       ELSE IF ~Truthy(listHeap, ret.val)
       THEN /\ signals' = ret.val
            /\ calls' = Append(calls, [adapter |-> "bq", op |-> "get_market_themes",
                                       date |-> args.date])
            /\ pc' = "bq_get_market_themes"
            /\ UNCHANGED <<query_date, response, dictHeap, listHeap>>
       ELSE /\ ThemesRespond(ret.val, query_date, dictHeap, listHeap)
            /\ UNCHANGED calls
    /\ UNCHANGED <<args, tier, min_score, limit, ret, fault, adapterDicts,
                   adapterLists, singleton>>

\* lines 154-170 after the await of the fallback adapter
ThemesAfterFallback ==
    /\ pc = "themes_after_bq"
    /\ IF ret.kind = "exc"
       THEN /\ pc' = "raised"
            /\ UNCHANGED <<signals, query_date, response, dictHeap, listHeap>>
       ELSE LET bq_res == ret.val
                fresh  == "themes" \notin DOMAIN bq_res
                lh     == IF fresh THEN Append(listHeap, <<>>) ELSE listHeap
                themes == IF fresh THEN Len(lh) ELSE bq_res["themes"]
            IN  ThemesRespond(themes, DictGet(bq_res, "scan_date", query_date),
                              dictHeap, lh)
    /\ UNCHANGED <<args, tier, min_score, limit, ret, calls, fault,
                   adapterDicts, adapterLists, singleton>>

(* ---------------- data/firestore_client.py ---------------- *)
Faults == {"none", "build", "stream", "convert"}

Ok(v) == [kind |-> "ok", val |-> v]

Raised == [kind |-> "exc"]

\* no handler around the body: the exception leaves the adapter
TryExceptMissing(outcome, empty) == outcome

\* try: <body> except Exception: return <empty>
TryExcept(outcome, empty) == IF outcome.kind = "exc" THEN Ok(empty) ELSE outcome

RECURSIVE InsertDesc(_, _)
InsertDesc(d, s) ==
    IF s = <<>> THEN <<d>>
    ELSE IF d.overnight_score >= Head(s).overnight_score THEN <<d>> \o s
    ELSE <<Head(s)>> \o InsertDesc(d, Tail(s))

RECURSIVE OrderByScoreDesc(_)
\* order_by("overnight_score", DESCENDING)
OrderByScoreDesc(s) ==
    IF s = <<>> THEN <<>> ELSE InsertDesc(Head(s), OrderByScoreDesc(Tail(s)))

\* the query built at lines 60-71, evaluated by the store
SignalsQuery(docs, date, direction, ms, lim) ==
    LET q1 == SelectSeq(docs, LAMBDA d : d.scan_date = date)
        q2 == IF direction # "ALL"
              THEN SelectSeq(q1, LAMBDA d : d.direction = direction) ELSE q1
        q3 == IF ms > 0
              THEN SelectSeq(q2, LAMBDA d : d.overnight_score >= ms) ELSE q2
        q4 == OrderByScoreDesc(q3)
    IN  SubSeq(q4, 1, Min(lim, Len(q4)))

\* the body of the try block of get_overnight_signals under store fault f:
\* a fault in building or streaming raises; a fault in to_dict raises when
\* there is a document to convert
FsSignalsBody(c, f) ==
    LET docs == SignalsQuery(FsSignalDocs, c.date, c.direction, c.min_score, c.limit)
    IN  IF f \in {"build", "stream"} \/ (f = "convert" /\ docs # <<>>)
        THEN Raised ELSE Ok(docs)

\* FirestoreClient.get_overnight_signals: the records are new dicts in a new list
FsGetOvernightSignals ==
    /\ pc = "fs_get_overnight_signals"
    /\ \E f \in Faults :
         LET body == FsSignalsBody(calls[Len(calls)], f)
             out  == TryExcept(body, <<>>)
         IN  /\ fault' = IF body.kind = "exc" THEN f ELSE "none"
             /\ IF out.kind = "exc"
                THEN /\ ret' = Raised
                     /\ UNCHANGED <<dictHeap, listHeap>>
                ELSE /\ dictHeap' = dictHeap \o out.val
                     /\ listHeap' = Append(listHeap, FilteredRefs(dictHeap, out.val))
                     /\ ret' = Ok(Len(listHeap'))
    /\ adapterDicts' = dictHeap'
    /\ adapterLists' = listHeap'
    /\ pc' = "signals_after_fs"
    /\ UNCHANGED <<args, tier, min_score, limit, query_date, signals, response,
                   calls, singleton>>

\* the body of the try block of get_signal_detail: the first matching
\* document, or None
FsDetailBody(c, f) ==
    LET docs == SelectSeq(FsSignalDocs,
                          LAMBDA d : d.scan_date = c.date /\ d.ticker = c.ticker)
    IN  IF f \in {"build", "stream"} \/ (f = "convert" /\ docs # <<>>)
        THEN Raised
        ELSE IF docs # <<>> THEN Ok(<<docs[1]>>) ELSE Ok(<<>>)

\* FirestoreClient.get_signal_detail: a new dict, or None
FsGetSignalDetail ==
    /\ pc = "fs_get_signal_detail"
    /\ \E f \in Faults :
         LET body == FsDetailBody(calls[Len(calls)], f)
             out  == TryExcept(body, <<>>)
         IN  /\ fault' = IF body.kind = "exc" THEN f ELSE "none"
             /\ IF out.kind = "exc"
                THEN /\ ret' = Raised
                     /\ UNCHANGED dictHeap
                ELSE /\ dictHeap' = dictHeap \o out.val
                     /\ ret' = Ok(IF out.val = <<>> THEN None ELSE Len(dictHeap'))
    /\ adapterDicts' = dictHeap'
    /\ adapterLists' = listHeap
    /\ pc' = "detail_after_fs"
    /\ UNCHANGED <<args, tier, min_score, limit, query_date, signals, response,
                   calls, listHeap, singleton>>

\* the body of the try block of get_market_themes: the theme list embedded
\* in the first summary document of the date, [] without one
FsThemesBody(c, f) ==
    LET docs == SelectSeq(FsThemeDocs, LAMBDA d : d.scan_date = c.date)
    IN  IF f \in {"build", "stream"} \/ (f = "convert" /\ docs # <<>>)
        THEN Raised
        ELSE IF docs # <<>> THEN Ok(DictGet(docs[1], "themes", <<>>)) ELSE Ok(<<>>)

\* FirestoreClient.get_market_themes
FsGetMarketThemes ==
    /\ pc = "fs_get_market_themes"
    /\ \E f \in Faults :
         LET body == FsThemesBody(calls[Len(calls)], f)
             out  == TryExcept(body, <<>>)
         IN  /\ fault' = IF body.kind = "exc" THEN f ELSE "none"
             /\ IF out.kind = "exc"
                THEN /\ ret' = Raised
                     /\ UNCHANGED <<dictHeap, listHeap>>
                ELSE /\ dictHeap' = dictHeap \o out.val
                     /\ listHeap' = Append(listHeap, FilteredRefs(dictHeap, out.val))
                     /\ ret' = Ok(Len(listHeap'))
    /\ adapterDicts' = dictHeap'
    /\ adapterLists' = listHeap'
    /\ pc' = "themes_after_fs"
    /\ UNCHANGED <<args, tier, min_score, limit, query_date, signals, response,
                   calls, singleton>>

Threads == 1..MaxThreads

\* FirestoreClient.__init__, line 24: the test of the class attribute
InitCheck(t) ==
    /\ tpc[t] = "start"
    /\ tpc' = [tpc EXCEPT ![t] = IF _client_instance = None
                                 THEN "construct" ELSE "bind"]
    /\ UNCHANGED <<_client_instance, constructed, made, client, request, heaps>>

\* line 25, right-hand side: firestore.Client(project=...) builds a handle
InitConstruct(t) ==
    /\ tpc[t] = "construct"
    /\ constructed' = constructed + 1
    /\ made' = [made EXCEPT ![t] = constructed']
    /\ tpc' = [tpc EXCEPT ![t] = "assign"]
    /\ UNCHANGED <<_client_instance, client, request, heaps>>

\* line 25, the store into FirestoreClient._client_instance
InitAssign(t) ==
    /\ tpc[t] = "assign"
    /\ _client_instance' = made[t]
    /\ tpc' = [tpc EXCEPT ![t] = "bind"]
    /\ UNCHANGED <<constructed, made, client, request, heaps>>

\* line 28: self.client = FirestoreClient._client_instance
InitBind(t) ==
    /\ tpc[t] = "bind"
    /\ client' = [client EXCEPT ![t] = _client_instance]
    /\ tpc' = [tpc EXCEPT ![t] = "done"]
    /\ UNCHANGED <<_client_instance, constructed, made, request, heaps>>

(* ---------------- data/bigquery_client.py (fallback adapter) ---------------- *)
BqOutcomes == {"result", "bare", "error"}

\* BigQueryClient.get_overnight_signals: an error, a mapping without entries,
\* or the matching signals with the scan date that satisfied the query
BqGetOvernightSignals ==
    /\ pc = "bq_get_overnight_signals"
    /\ \E o \in BqOutcomes :
         LET c    == calls[Len(calls)]
             d    == IF c.date = "latest" THEN BqLatestDate ELSE c.date
             docs == SignalsQuery(BqSignalDocs, d, c.direction, c.min_score, c.limit)
         IN  IF o = "result"
             THEN /\ dictHeap' = dictHeap \o docs
                  /\ listHeap' = Append(listHeap, FilteredRefs(dictHeap, docs))
                  /\ ret' = Ok([signals |-> Len(listHeap'), scan_date |-> d])
             ELSE /\ ret' = IF o = "bare" THEN Ok(EmptyDict) ELSE Raised
                  /\ UNCHANGED <<dictHeap, listHeap>>
    /\ adapterDicts' = dictHeap'
    /\ adapterLists' = listHeap'
    /\ pc' = "signals_after_bq"
    /\ UNCHANGED <<args, tier, min_score, limit, query_date, signals, response,
                   calls, fault, singleton>>

\* BigQueryClient.get_signal_detail: an error, nothing, or the signal of the
\* ticker on the date that satisfied the query
BqGetSignalDetail ==
    /\ pc = "bq_get_signal_detail"
    /\ \E o \in BqOutcomes :
         LET c    == calls[Len(calls)]
             d    == IF c.date = "latest" THEN BqLatestDate ELSE c.date
             docs == SelectSeq(BqSignalDocs,
                               LAMBDA x : x.scan_date = d /\ x.ticker = c.ticker)
         IN  IF o = "result" /\ docs # <<>>
             THEN /\ dictHeap' = Append(dictHeap, docs[1])
                  /\ ret' = Ok(Len(dictHeap'))
             ELSE /\ ret' = IF o = "error" THEN Raised ELSE Ok(None)
                  /\ UNCHANGED dictHeap
    /\ adapterDicts' = dictHeap'
    /\ adapterLists' = listHeap
    /\ pc' = "detail_after_bq"
    /\ UNCHANGED <<args, tier, min_score, limit, query_date, signals, response,
                   calls, fault, listHeap, singleton>>

\* BigQueryClient.get_market_themes: an error, a mapping without entries, or
\* the themes with the scan date that satisfied the query
BqGetMarketThemes ==
    /\ pc = "bq_get_market_themes"
    /\ \E o \in BqOutcomes :
         LET c    == calls[Len(calls)]
             d    == IF c.date = "latest" THEN BqLatestDate ELSE c.date
             docs == IF d = BqLatestDate THEN BqThemes ELSE <<>>
         IN  IF o = "result"
             THEN /\ dictHeap' = dictHeap \o docs
                  /\ listHeap' = Append(listHeap, FilteredRefs(dictHeap, docs))
                  /\ ret' = Ok([themes |-> Len(listHeap'), scan_date |-> d])
             ELSE /\ ret' = IF o = "bare" THEN Ok(EmptyDict) ELSE Raised
                  /\ UNCHANGED <<dictHeap, listHeap>>
    /\ adapterDicts' = dictHeap'
    /\ adapterLists' = listHeap'
    /\ pc' = "themes_after_bq"
    /\ UNCHANGED <<args, tier, min_score, limit, query_date, signals, response,
                   calls, fault, singleton>>

(* ---------------- the request cycle ---------------- *)
NoArgs == [op |-> "", direction |-> "", min_score |-> 0, limit |-> 0,
           date |-> "", ticker |-> "", kwargs |-> EmptyDict, now |-> ""]

InitRequest ==
    /\ pc = "idle"
    /\ args = NoArgs
    /\ tier = ""
    /\ min_score = 0
    /\ limit = 0
    /\ query_date = ""
    /\ signals = None
    /\ ret = Ok(None)
    /\ response = EmptyDict
    /\ calls = <<>>
    /\ fault = "none"
    /\ dictHeap = <<>>
    /\ listHeap = <<>>
    /\ adapterDicts = <<>>
    /\ adapterLists = <<>>

\* the handler has returned (or raised) and the next request arrives
Return ==
    /\ pc \in {"done", "raised"}
    /\ pc' = "idle"
    /\ args' = NoArgs
    /\ tier' = ""
    /\ min_score' = 0
    /\ limit' = 0
    /\ query_date' = ""
    /\ signals' = None
    /\ ret' = Ok(None)
    /\ response' = EmptyDict
    /\ calls' = <<>>
    /\ fault' = "none"
    /\ dictHeap' = <<>>
    /\ listHeap' = <<>>
    /\ adapterDicts' = <<>>
    /\ adapterLists' = <<>>
    /\ UNCHANGED singleton

\* after the import of tools.overnight_signals: fs_client has been built
Init ==
    /\ InitRequest
    /\ _client_instance = 1
    /\ constructed = 1
    /\ tpc = [t \in Threads |-> IF t = 1 THEN "done" ELSE "start"]
    /\ made = [t \in Threads |-> IF t = 1 THEN 1 ELSE None]
    /\ client = [t \in Threads |-> IF t = 1 THEN 1 ELSE None]

Next ==
    \/ \E direction \in Directions, ms \in MinScores, lim \in Limits,
          date \in Dates, k \in KwargsIds, dt \in Clock :
          GetOvernightSignals(direction, ms, lim, date, KwargsOf(k), dt)
    \/ FsGetOvernightSignals
    \/ SignalsAfterPrimary
    \/ BqGetOvernightSignals
    \/ SignalsAfterFallback
    \/ \E ticker \in Tickers, date \in Dates, k \in KwargsIds, dt \in Clock :
          GetSignalDetail(ticker, date, KwargsOf(k), dt)
    \/ FsGetSignalDetail
    \/ DetailAfterPrimary
    \/ BqGetSignalDetail
    \/ DetailAfterFallback
    \/ \E date \in Dates, k \in KwargsIds, dt \in Clock :
          GetMarketThemes(date, KwargsOf(k), dt)
    \/ FsGetMarketThemes
    \/ ThemesAfterPrimary
    \/ BqGetMarketThemes
    \/ ThemesAfterFallback
    \/ Return

Spec == Init /\ [][Next]_vars

(* ---------------- concurrent instantiation of FirestoreClient ---------------- *)
\* process start: no handle yet, every thread is about to call FirestoreClient()
InitSingleton ==
    /\ InitRequest
    /\ _client_instance = None
    /\ constructed = 0
    /\ tpc = [t \in Threads |-> "start"]
    /\ made = [t \in Threads |-> None]
    /\ client = [t \in Threads |-> None]

NextSingleton ==
    \/ \E t \in Threads : InitCheck(t)
    \/ \E t \in Threads : InitConstruct(t)
    \/ \E t \in Threads : InitAssign(t)
    \/ \E t \in Threads : InitBind(t)

SpecSingleton == InitSingleton /\ [][NextSingleton]_vars

(* ======================= properties ======================= *)
PremiumNames == {"recommended_contract", "recommended_strike",
                 "recommended_expiration", "recommended_mid_price",
                 "contract_score", "technicals", "news", "catalyst_summary",
                 "flow_details"}

SameDict(a, b) == DOMAIN a = DOMAIN b /\ \A f \in DOMAIN a : a[f] = b[f]

Finished == pc \in {"done", "raised"}

IsSignals == args.op = "get_overnight_signals"
IsDetail == args.op = "get_signal_detail"
IsThemes == args.op = "get_market_themes"

\* the records of a list as the adapter returned them
RecordsOf(l) == [i \in 1..Len(adapterLists[l]) |-> adapterDicts[adapterLists[l][i]]]

\* what the adapter whose result the handler used handed over under `key`
\* (read when the handler is done)
Delivered(key) ==
    IF ret.kind # "ok" THEN <<>>
    ELSE IF Len(calls) = 1 THEN RecordsOf(ret.val)
    ELSE IF key \in DOMAIN ret.val THEN RecordsOf(ret.val[key])
    ELSE <<>>

\* the records of the response, under `key`
Responded(key) == [i \in 1..Len(listHeap[response[key]]) |->
                      dictHeap[listHeap[response[key]][i]]]

ResolvedDate == IF args.date = "latest" THEN args.now ELSE args.date

\* C1: in get_overnight_signals every adapter call (primary, and fallback
\* when made) carries min_score = max(caller min_score, 7) and
\* limit = min(caller limit, 10) when the tier is FREE, hence min_score >= 7,
\* limit <= 10 and never looser than the caller's; for any other tier the
\* caller's min_score and limit are passed unchanged.
C1_TierRestriction ==
    IsSignals =>
        \A i \in DOMAIN calls :
            IF tier = "FREE"
            THEN /\ calls[i].min_score = Max(args.min_score, 7)
                 /\ calls[i].limit = Min(args.limit, 10)
                 /\ calls[i].min_score >= 7
                 /\ calls[i].limit <= 10
                 /\ calls[i].min_score >= args.min_score
                 /\ calls[i].limit <= args.limit
            ELSE /\ calls[i].min_score = args.min_score
                 /\ calls[i].limit = args.limit

C1_Witness ==
    /\ IsSignals /\ pc = "done" /\ tier = "FREE"
    /\ args.min_score = 5 /\ args.limit = 50
    /\ Len(calls) = 2
    /\ calls[1].min_score = 7 /\ calls[2].min_score = 7
    /\ calls[1].limit = 10 /\ calls[2].limit = 10

\* C2: every signal of a get_overnight_signals response to a FREE caller,
\* from the primary or the fallback adapter, has none of the nine premium
\* attributes and keeps every other attribute of the adapter's record; for
\* any other tier each signal has exactly the adapter's attributes and values.
C2_Redaction ==
    (IsSignals /\ pc = "done") =>
        LET out == Responded("signals")
            src == Delivered("signals")
        IN  /\ Len(out) = Len(src)
            /\ \A i \in DOMAIN out :
                 IF tier = "FREE"
                 THEN /\ DOMAIN out[i] \cap PremiumNames = {}
                      /\ DOMAIN out[i] = DOMAIN src[i] \ PremiumNames
                      /\ \A f \in DOMAIN out[i] : out[i][f] = src[i][f]
                 ELSE SameDict(out[i], src[i])

C2_Witness ==
    /\ IsSignals /\ pc = "done" /\ tier = "FREE" /\ Len(calls) = 2
    /\ Len(Delivered("signals")) > 0
    /\ \E i \in DOMAIN Delivered("signals") :
         /\ DOMAIN Delivered("signals")[i] \cap PremiumNames # {}
         /\ DOMAIN Responded("signals")[i] # {}

\* C3: get_overnight_signals queries the primary adapter first and exactly
\* once; when the primary result is empty the fallback adapter is called
\* exactly once, with the caller's own date ("latest" as given) and the
\* tier-adjusted direction/min_score/limit, and the response carries the scan
\* date the fallback reports; when the primary result is not empty the
\* fallback is never called and the scan date is the resolved query date.
C3_Fallback ==
    (IsSignals /\ pc # "idle") =>
        LET fsEmpty == adapterLists[1] = <<>>
            returned == pc \notin {"fs_get_overnight_signals"}
        IN  /\ Len(calls) \in {1, 2}
            /\ calls[1].adapter = "fs"
            /\ calls[1].date = ResolvedDate
            /\ \A i \in DOMAIN calls : i > 1 => calls[i].adapter = "bq"
            /\ Len(calls) = 2 =>
                 /\ returned /\ fsEmpty
                 /\ calls[2].date = args.date
                 /\ calls[2].direction = args.direction
                 /\ calls[2].min_score = calls[1].min_score
                 /\ calls[2].limit = calls[1].limit
            /\ (returned /\ pc # "signals_after_fs" /\ fsEmpty) => Len(calls) = 2
            /\ (returned /\ ~fsEmpty) => Len(calls) = 1
            /\ (pc = "done" /\ Len(calls) = 2 /\ "scan_date" \in DOMAIN ret.val)
                 => response.scan_date = ret.val.scan_date
            /\ (pc = "done" /\ Len(calls) = 1)
                 => response.scan_date = ResolvedDate

C3_Witness ==
    /\ IsSignals /\ pc = "done"
    /\ args.date = "latest" /\ args.now = "2026-01-02"
    /\ Len(calls) = 2 /\ calls[2].date = "latest"
    /\ response.scan_date = "2026-01-01"

\* C4: get_signal_detail for the FREE tier returns the error result
\* "upgrade_required" for every ticker and date, and calls neither adapter.
C4_DetailDenied ==
    (IsDetail /\ tier = "FREE") =>
        /\ calls = <<>>
        /\ pc = "done"
        /\ "error" \in DOMAIN response
        /\ response.error = "upgrade_required"

C4_Witness ==
    /\ IsDetail /\ tier = "FREE" /\ pc = "done"
    /\ args.ticker = "FSLY" /\ args.date = "2026-01-01"
    /\ response.error = "upgrade_required"

\* C5: get_market_themes returns to a FREE caller every theme of the adapter
\* (primary or fallback), in the same order and number, without "tickers"
\* and with every other attribute unchanged; any other tier gets the themes
\* as the adapter supplied them.
C5_Themes ==
    (IsThemes /\ pc = "done") =>
        LET out == Responded("themes")
            src == Delivered("themes")
        IN  /\ Len(out) = Len(src)
            /\ \A i \in DOMAIN out :
                 IF tier = "FREE"
                 THEN /\ DOMAIN out[i] = DOMAIN src[i] \ {"tickers"}
                      /\ \A f \in DOMAIN out[i] : out[i][f] = src[i][f]
                 ELSE SameDict(out[i], src[i])

C5_Witness ==
    /\ IsThemes /\ pc = "done" /\ tier = "FREE"
    /\ Len(Responded("themes")) = 2
    /\ "tickers" \in DOMAIN Delivered("themes")[1]
    /\ Responded("themes")[1].name = "AI"

\* C6: no record and no list an adapter returned is changed by a handler:
\* each still has the attributes and values it had when the adapter returned.
C6_NoMutation ==
    /\ Len(adapterDicts) <= Len(dictHeap)
    /\ Len(adapterLists) <= Len(listHeap)
    /\ \A r \in DOMAIN adapterDicts : SameDict(dictHeap[r], adapterDicts[r])
    /\ \A l \in DOMAIN adapterLists : listHeap[l] = adapterLists[l]

C6_Witness ==
    /\ pc = "done" /\ tier = "FREE" /\ IsSignals
    /\ Len(dictHeap) > Len(adapterDicts)
    /\ \E r \in DOMAIN adapterDicts : DOMAIN adapterDicts[r] \cap PremiumNames # {}
    /\ \E r \in DOMAIN dictHeap : DOMAIN dictHeap[r] \cap PremiumNames = {}

\* C7: the read operations of the primary adapter fail soft: the adapter
\* always returns a value, and when the store query failed at any step the
\* value is the empty one of the result type (empty list, None, empty list).
C7_FailSoft ==
    /\ pc \in {"signals_after_fs", "detail_after_fs", "themes_after_fs"} =>
         /\ ret.kind = "ok"
         /\ fault # "none" =>
              IF pc = "detail_after_fs" THEN ret.val = None
              ELSE listHeap[ret.val] = <<>>
    /\ (pc = "raised") => Len(calls) = 2

C7_Witness ==
    /\ pc = "signals_after_fs" /\ fault = "convert"
    /\ ret.kind = "ok" /\ listHeap[ret.val] = <<>>

\* C8: when the primary result is empty and the fallback call raises or
\* returns nothing, the handler still completes with a response mapping.
C8_FallbackTolerated ==
    (Len(calls) = 2 /\ Finished) => (pc = "done" /\ response # EmptyDict)

\* C9: without _user_info, or with a _user_info that has no tier, the tier is
\* FREE and its restrictions apply: get_overnight_signals tightens
\* min_score/limit, redacts the premium fields and attaches the upgrade
\* block; get_signal_detail is denied; get_market_themes strips the tickers.
NoTierGiven ==
    \/ "_user_info" \notin DOMAIN args.kwargs
    \/ "tier" \notin DOMAIN args.kwargs["_user_info"]

C9_DefaultTier ==
    (args.op # "" /\ NoTierGiven) =>
        /\ tier = "FREE"
        /\ IsSignals =>
             /\ \A i \in DOMAIN calls :
                  calls[i].min_score >= 7 /\ calls[i].limit <= 10
             /\ pc = "done" =>
                  /\ "upgrade" \in DOMAIN response
                  /\ \A i \in DOMAIN Responded("signals") :
                       DOMAIN Responded("signals")[i] \cap PremiumNames = {}
        /\ IsDetail =>
             /\ calls = <<>>
             /\ pc = "done" /\ response.error = "upgrade_required"
        /\ (IsThemes /\ pc = "done") =>
             \A i \in DOMAIN Responded("themes") :
                 "tickers" \notin DOMAIN Responded("themes")[i]

C9_Witness ==
    /\ IsSignals /\ pc = "done"
    /\ "_user_info" \notin DOMAIN args.kwargs
    /\ args.min_score = 5 /\ calls[1].min_score = 7
    /\ "upgrade" \in DOMAIN response
    /\ Len(Responded("signals")) > 0

\* C10: firestore.Client(...) runs at most once however many FirestoreClient
\* instances are built, concurrently or not, and every instance holds the
\* same handle.
C10_ConstructedOnce ==
    /\ constructed <= 1
    /\ \A t, u \in Threads :
         (tpc[t] = "done" /\ tpc[u] = "done") => client[t] = client[u]

====
